---- MODULE Spec2Model ----
(***************************************************************************)
(* dom-manipulation/script.js: the quote generator's local/remote sync.    *)
(* The file holds several successive drafts; the model covers              *)
(*   - QuoteManager + ServerSimulator (lines 446-804): the state machine,  *)
(*   - reconcileServerData of the earlier draft (lines 405-442),           *)
(*   - loadQuotes of the earlier drafts (lines 38-51, 311-323).            *)
(* Strings are sequences of one-character strings, so that trim() and      *)
(* string concatenation are computed and not assumed.                      *)
(***************************************************************************)
EXTENDS Integers, Sequences, FiniteSets, TLC

VARIABLES
    quotes,          \* QuoteManager.quotes (in-memory record array)
    localStore,      \* localStorage['quoteGeneratorLocalData']
    serverStore,     \* localStorage['quoteGeneratorServerData']
    isSyncing,       \* QuoteManager.isSyncing
    pendingChanges,  \* QuoteManager.pendingChanges
    cycles,          \* the syncWithServer invocations suspended at an await
    status,          \* what updateSyncStatus last put into #syncStatus
    statusClears,    \* pending setTimeout(clear status, 3000) callbacks
    conflictList,    \* the entries rendered into #conflictList
    conflictShown,   \* #conflictResolution is displayed
    resyncTimers,    \* pending setTimeout(syncWithServer, 1000) callbacks
    now,             \* the clock read by Date.now() / new Date()
    last,            \* history: the handler that ran last and its outcome
    lastMerge,       \* history: arguments and result of the last mergeQuotes
    cycleWrites,     \* history: Local Store writes made by sync cycles since
                     \* the last accepted syncWithServer request
    adds,            \* history: the number of records addQuote has created
    call             \* a single call of mergeQuotes or reconcileServerData on
                     \* given arguments, with its result (the function specs)

vars == <<quotes, localStore, serverStore, isSyncing, pendingChanges, cycles,
          status, statusClears, conflictList, conflictShown, resyncTimers,
          now, last, lastMerge, cycleWrites, adds, call>>

----------------------------------------------------------------------------
(* Bounds of the model *)

StartTime == 10     \* the clock at construction; far above the seed ids 1..4
ClockSpan == 3      \* the clock runs from StartTime to StartTime + ClockSpan;
                    \* no sync cycle starts at the last clock value
MaxAdds == 2        \* accepted addQuote calls explored in one behaviour
MaxTextLen == 2     \* simulateConflictTest is explored up to this text length
MaxLen == 2         \* longest argument array of the function specs

MaxClock == StartTime + ClockSpan

----------------------------------------------------------------------------
(* Strings *)

IsBlank(c) == c = " "

RECURSIVE TrimLeft(_)
TrimLeft(s) ==
    IF s = <<>> THEN <<>>
    ELSE IF IsBlank(Head(s)) THEN TrimLeft(Tail(s)) ELSE s

RECURSIVE TrimRight(_)
TrimRight(s) ==
    IF s = <<>> THEN <<>>
    ELSE IF IsBlank(s[Len(s)]) THEN TrimRight(SubSeq(s, 1, Len(s) - 1)) ELSE s

\* String.prototype.trim
Trim(s) == TrimRight(TrimLeft(s))

\* JavaScript truthiness of a string: only the empty string is falsy
Truthy(s) == s # <<>>

\* what a user can type into #newQuoteText and #newQuoteCategory
RawTexts == {<<>>, <<" ">>, <<" ", "a">>}
RawCategories == {<<>>, <<"x", " ">>}

----------------------------------------------------------------------------
(* Records *)

Rec(id, text, category, version, lastModified, local) ==
    [id |-> id, text |-> text, category |-> category, version |-> version,
     lastModified |-> lastModified, local |-> local]

\* ServerSimulator.initializeServerData: the three seed records (texts abbreviated)
InitialServerData(t) ==
    << Rec(1, <<"w">>, <<"I">>, 1, t, FALSE),
       Rec(2, <<"n">>, <<"L">>, 1, t, FALSE),
       Rec(3, <<"p">>, <<"F">>, 1, t, FALSE) >>

\* QuoteManager.loadFromLocalStorage, nothing saved: the one seed record
InitialLocalData(t) == << Rec(4, <<"d">>, <<"D">>, 1, t, FALSE) >>

Ids(s) == {s[k].id : k \in 1..Len(s)}

----------------------------------------------------------------------------
(* ServerSimulator.postQuotes: every record gets version + 1 and a new time *)

\* a version stepped the wrong way (used to test C5)
PostedVersionDown(v) == v - 1

\* line 487
PostedVersion(v) == v + 1

PostMap(qs, t) ==
    [k \in 1..Len(qs) |->
        [qs[k] EXCEPT !.version = PostedVersion(qs[k].version),
                      !.lastModified = t]]

----------------------------------------------------------------------------
(* QuoteManager.mergeQuotes *)

\* a findIndex whose predicate never matches (used to test C7)
FindIndexMissed(s, id) == 0

\* Array.prototype.findIndex(sq => sq.id === id); 0 stands for -1
FindIndex(s, id) ==
    IF \E k \in 1..Len(s) : s[k].id = id
    THEN CHOOSE k \in 1..Len(s) :
            s[k].id = id /\ \A j \in 1..(k - 1) : s[j].id # id
    ELSE 0

\* the conflict test of lines 628-630
IsConflict(lq, sq) ==
    \/ lq.version # sq.version
    \/ lq.text # sq.text
    \/ lq.category # sq.category

\* local wins instead of the server (used to test C3)
ResolvedLocalWins(lq, sq) == lq

\* line 640: the record kept in merged for a conflicting id
Resolved(lq, sq) == sq

RECURSIVE MergeFrom(_, _, _, _)
MergeFrom(localQuotes, k, merged, conflicts) ==
    IF k > Len(localQuotes)
    THEN [merged |-> merged, conflicts |-> conflicts]
    ELSE LET lq  == localQuotes[k]
             idx == FindIndex(merged, lq.id)
         IN IF idx = 0
            THEN MergeFrom(localQuotes, k + 1, Append(merged, lq), conflicts)
            ELSE IF IsConflict(lq, merged[idx])
                 THEN MergeFrom(localQuotes, k + 1,
                                [merged EXCEPT ![idx] = Resolved(lq, merged[idx])],
                                Append(conflicts,
                                       [local |-> lq, server |-> merged[idx],
                                        resolved |-> merged[idx]]))
                 ELSE MergeFrom(localQuotes, k + 1, merged, conflicts)

mergeQuotes(localQuotes, serverQuotes) ==
    MergeFrom(localQuotes, 1, serverQuotes, <<>>)

----------------------------------------------------------------------------
(* Status messages of updateSyncStatus(message, type) *)

Status(msg, n, type) == [msg |-> msg, n |-> n, type |-> type]

StatusNone       == Status("", 0, "")
StatusAlready    == Status("Already syncing...", 0, "syncing")
StatusSyncing    == Status("Syncing with server...", 0, "syncing")
StatusSynced     == Status("Sync completed successfully!", 0, "synced")
StatusFailed     == Status("Sync failed: Server unavailable", 0, "conflict")
StatusConflicts(n) == Status("conflict(s) detected", n, "conflict")
StatusResolved(choice) ==
    Status(IF choice = "local" THEN "Conflict resolved using local version"
                               ELSE "Conflict resolved using server version",
           0, "synced")

NoMerge == [local |-> <<>>, server |-> <<>>, merged |-> <<>>, conflicts |-> <<>>]

NoCall == [fn |-> "none"]

\* the handler that ran, whether its syncWithServer call was rejected, and
\* the arguments it was given
Ran(op, rejected, idx, choice, text, category) ==
    [op |-> op, rejected |-> rejected, idx |-> idx, choice |-> choice,
     text |-> text, category |-> category]

Did(op, rejected) == Ran(op, rejected, 0, "", <<>>, <<>>)

----------------------------------------------------------------------------
(* Construction: new QuoteManager() on empty localStorage *)

Constructed ==
    /\ now = StartTime
    /\ serverStore = InitialServerData(StartTime)
    /\ quotes = InitialLocalData(StartTime)
    /\ localStore = InitialLocalData(StartTime)
    /\ pendingChanges = TRUE          \* saveToLocalStorage on the first load
    /\ isSyncing = FALSE
    /\ cycles = <<>>
    /\ status = StatusNone
    /\ statusClears = 0
    /\ conflictList = <<>>
    /\ conflictShown = FALSE
    /\ resyncTimers = 0
    /\ last = Did("construct", FALSE)
    /\ lastMerge = NoMerge
    /\ cycleWrites = 0
    /\ adds = 0

Init ==
    /\ Constructed
    /\ call = NoCall

----------------------------------------------------------------------------
(* syncWithServer up to its first await (lines 571-582) *)

\* a guard that never rejects (used to test C1)
AlreadySyncingNever == FALSE

\* line 572: the guard that rejects a request
AlreadySyncing == isSyncing

\* the part of a handler that calls this.syncWithServer()
SyncRequest(ran) ==
    IF AlreadySyncing
    THEN /\ status' = StatusAlready
         /\ last' = [ran EXCEPT !.rejected = TRUE]
         /\ UNCHANGED <<isSyncing, cycles, cycleWrites>>
    ELSE /\ now < MaxClock
         /\ isSyncing' = TRUE
         /\ status' = StatusSyncing
         /\ cycles' = Append(cycles, [pc |-> "fetch", t0 |-> now, merged |-> <<>>])
         /\ cycleWrites' = 0
         /\ last' = ran

\* click on #manualSync (lines 734-736)
ManualSync ==
    /\ SyncRequest(Did("manualSync", FALSE))
    /\ UNCHANGED <<quotes, localStore, serverStore, pendingChanges, statusClears,
                   conflictList, conflictShown, resyncTimers, now, lastMerge>>
    /\ UNCHANGED <<adds, call>>

\* the setInterval callback of startPeriodicSync (lines 693-697)
PeriodicTick ==
    /\ IF pendingChanges
       THEN SyncRequest(Did("periodic", FALSE))
       ELSE /\ last' = Did("periodicSkip", FALSE)
            /\ UNCHANGED <<isSyncing, status, cycles, cycleWrites>>
    /\ UNCHANGED <<quotes, localStore, serverStore, pendingChanges, statusClears,
                   conflictList, conflictShown, resyncTimers, now, lastMerge>>
    /\ UNCHANGED <<adds, call>>

\* the setTimeout callback of resolveConflict (line 687)
ResyncTimerFire ==
    /\ resyncTimers > 0
    /\ resyncTimers' = resyncTimers - 1
    /\ SyncRequest(Did("resync", FALSE))
    /\ UNCHANGED <<quotes, localStore, serverStore, pendingChanges, statusClears,
                   conflictList, conflictShown, now, lastMerge>>
    /\ UNCHANGED <<adds, call>>

----------------------------------------------------------------------------
(* addQuote: the click handler of #addQuoteBtn and QuoteManager.addQuote *)

\* line 762: the handler's test on the raw field values
FormAccepts(text, category) == Truthy(text) /\ Truthy(category)

\* lines 543-550
NewQuote(text, category, t) == Rec(t, Trim(text), Trim(category), 1, t, TRUE)

AddQuoteClick(text, category) ==
    /\ adds < MaxAdds
    /\ IF FormAccepts(text, category)
       THEN /\ quotes' = Append(quotes, NewQuote(text, category, now))
            /\ adds' = adds + 1
            /\ localStore' = quotes'
            /\ pendingChanges' = TRUE
            /\ SyncRequest(Ran("addQuote", FALSE, 0, "", text, category))
       ELSE /\ last' = Ran("addQuoteAlert", FALSE, 0, "", text, category)
            /\ UNCHANGED <<adds, quotes, localStore, pendingChanges, isSyncing, status,
                           cycles, cycleWrites>>
    /\ UNCHANGED <<serverStore, statusClears, conflictList, conflictShown,
                   resyncTimers, now, lastMerge>>
    /\ UNCHANGED call

----------------------------------------------------------------------------
(* syncWithServer after its awaits *)

\* ServerSimulator.delay (lines 469, 482, 495-497): a delay lasts at least
\* 500 ms, so it is over once the clock has moved on; the last clock value
\* stands for every later time as well
Elapsed(t0) == now > t0 \/ now = MaxClock

RemoveAt(s, i) == [k \in 1..(Len(s) - 1) |-> IF k < i THEN s[k] ELSE s[k + 1]]

\* a finally block that leaves isSyncing set (used to test C14)
FinallyStillSyncing(i) ==
    /\ isSyncing' = TRUE
    /\ cycles' = RemoveAt(cycles, i)
    /\ statusClears' = statusClears + 1

\* the finally block (lines 603-610)
Finally(i) ==
    /\ isSyncing' = FALSE
    /\ cycles' = RemoveAt(cycles, i)
    /\ statusClears' = statusClears + 1

\* a failure path that has already applied the merge (used to test C2)
FetchFailPartial(i) ==
    /\ cycles[i].pc = "fetch"
    /\ Elapsed(cycles[i].t0)
    /\ quotes' = mergeQuotes(quotes, serverStore).merged
    /\ localStore' = quotes'
    /\ status' = StatusFailed
    /\ Finally(i)
    /\ last' = Did("fetchFail", FALSE)
    /\ UNCHANGED <<serverStore, pendingChanges, conflictList,
                   conflictShown, resyncTimers, now, lastMerge, cycleWrites>>
    /\ UNCHANGED <<adds, call>>

\* fetchQuotes throws after its delay (lines 469-474), then catch and finally
FetchFail(i) ==
    /\ cycles[i].pc = "fetch"
    /\ Elapsed(cycles[i].t0)
    /\ status' = StatusFailed
    /\ Finally(i)
    /\ last' = Did("fetchFail", FALSE)
    /\ UNCHANGED <<quotes, localStore, serverStore, pendingChanges, conflictList,
                   conflictShown, resyncTimers, now, lastMerge, cycleWrites>>
    /\ UNCHANGED <<adds, call>>

\* fetchQuotes returns after its delay (lines 469-477); mergeQuotes runs and
\* postQuotes starts its delay (lines 585-588, 482)
FetchOk(i) ==
    /\ cycles[i].pc = "fetch"
    /\ Elapsed(cycles[i].t0)
    /\ LET m == mergeQuotes(quotes, serverStore)
       IN /\ cycles' = [cycles EXCEPT ![i] =
                           [pc |-> "post", t0 |-> now, merged |-> m.merged]]
          /\ lastMerge' = [local |-> quotes, server |-> serverStore,
                           merged |-> m.merged, conflicts |-> m.conflicts]
          /\ IF Len(m.conflicts) > 0
             THEN /\ conflictList' = m.conflicts
                  /\ conflictShown' = TRUE
                  /\ status' = StatusConflicts(Len(m.conflicts))
             ELSE UNCHANGED <<conflictList, conflictShown, status>>
    /\ last' = Did("fetchOk", FALSE)
    /\ UNCHANGED <<quotes, localStore, serverStore, isSyncing, pendingChanges,
                   statusClears, resyncTimers, now, cycleWrites>>
    /\ UNCHANGED <<adds, call>>

\* a cycle end that installs the merged array and not the array the push
\* returned (used to test C24)
PostOkKeepsMerged(i) ==
    /\ cycles[i].pc = "post"
    /\ Elapsed(cycles[i].t0)
    /\ serverStore' = PostMap(cycles[i].merged, now)
    /\ quotes' = cycles[i].merged
    /\ localStore' = cycles[i].merged
    /\ cycleWrites' = cycleWrites + 1
    /\ pendingChanges' = FALSE
    /\ status' = StatusSynced
    /\ Finally(i)
    /\ last' = Did("postOk", FALSE)
    /\ UNCHANGED <<conflictList, conflictShown, resyncTimers, now, lastMerge>>
    /\ UNCHANGED <<adds, call>>

\* postQuotes returns after its delay (lines 485-492); lines 591-598, finally
PostOk(i) ==
    /\ cycles[i].pc = "post"
    /\ Elapsed(cycles[i].t0)
    /\ LET updatedQuotes == PostMap(cycles[i].merged, now)
       IN /\ serverStore' = updatedQuotes
          /\ quotes' = updatedQuotes
          /\ localStore' = updatedQuotes
    /\ cycleWrites' = cycleWrites + 1
    /\ pendingChanges' = FALSE
    /\ status' = StatusSynced
    /\ Finally(i)
    /\ last' = Did("postOk", FALSE)
    /\ UNCHANGED <<conflictList, conflictShown, resyncTimers, now, lastMerge>>
    /\ UNCHANGED <<adds, call>>

\* the setTimeout callback of the finally block (lines 607-609)
ClearStatus ==
    /\ statusClears > 0
    /\ statusClears' = statusClears - 1
    /\ status' = StatusNone
    /\ last' = Did("clearStatus", FALSE)
    /\ UNCHANGED <<quotes, localStore, serverStore, isSyncing, pendingChanges,
                   cycles, conflictList, conflictShown, resyncTimers, now,
                   lastMerge, cycleWrites>>
    /\ UNCHANGED <<adds, call>>

----------------------------------------------------------------------------
(* resolveConflict(conflictIndex, choice): the buttons of a displayed entry *)

Choices == {"local", "server"}

resolveConflict(conflictIndex, choice) ==
    /\ conflictShown
    /\ conflictIndex \in 1..Len(conflictList)
    /\ conflictShown' = FALSE
    /\ status' = StatusResolved(choice)
    /\ resyncTimers' = resyncTimers + 1
    /\ last' = Ran("resolveConflict", FALSE, conflictIndex, choice, <<>>, <<>>)
    /\ UNCHANGED <<quotes, localStore, serverStore, isSyncing, pendingChanges,
                   cycles, statusClears, conflictList, now, lastMerge,
                   cycleWrites>>
    /\ UNCHANGED <<adds, call>>

----------------------------------------------------------------------------
(* Time passes *)

Tick ==
    /\ now < MaxClock
    /\ now' = now + 1
    /\ last' = Did("tick", FALSE)
    /\ UNCHANGED <<quotes, localStore, serverStore, isSyncing, pendingChanges,
                   cycles, status, statusClears, conflictList, conflictShown,
                   resyncTimers, lastMerge, cycleWrites>>
    /\ UNCHANGED <<adds, call>>

----------------------------------------------------------------------------
(* simulateConflictTest (lines 780-801): the first record of each store is
   rewritten in localStorage, then a sync is requested *)

LocalPrefix  == <<"L">>     \* "Modified locally: "
ServerPrefix == <<"S">>     \* "Modified on server: "

ModifyFirst(data, prefix) ==
    IF Len(data) > 0
    THEN [data EXCEPT ![1] = [@ EXCEPT !.text = prefix \o @,
                                       !.version = @ + 1]]
    ELSE data

SimulateConflictTest ==
    /\ \A k \in {1} \cap DOMAIN localStore : Len(localStore[k].text) < MaxTextLen
    /\ \A k \in {1} \cap DOMAIN serverStore : Len(serverStore[k].text) < MaxTextLen
    /\ localStore' = ModifyFirst(localStore, LocalPrefix)
    /\ serverStore' = ModifyFirst(serverStore, ServerPrefix)
    /\ SyncRequest(Did("simulateConflictTest", FALSE))
    /\ UNCHANGED <<quotes, pendingChanges, statusClears, conflictList,
                   conflictShown, resyncTimers, now, lastMerge>>
    /\ UNCHANGED <<adds, call>>

----------------------------------------------------------------------------

Next ==
    \/ ManualSync
    \/ PeriodicTick
    \/ ResyncTimerFire
    \/ \E text \in RawTexts, category \in RawCategories : AddQuoteClick(text, category)
    \/ \E i \in 1..Len(cycles) : FetchFail(i)
    \/ \E i \in 1..Len(cycles) : FetchOk(i)
    \/ \E i \in 1..Len(cycles) : PostOk(i)
    \/ ClearStatus
    \/ \E i \in 1..Len(conflictList), choice \in Choices : resolveConflict(i, choice)
    \/ Tick

Spec == Init /\ [][Next]_vars

\* The event loop runs every callback that is due: time passes, every delay
\* ends (setTimeout, lines 495-497), and the awaiting syncWithServer resumes
\* with the result or the exception of fetchQuotes and of postQuotes.
Fairness ==
    /\ WF_vars(Tick)
    /\ WF_vars(\E i \in 1..Len(cycles) : FetchFail(i) \/ FetchOk(i))
    /\ WF_vars(\E i \in 1..Len(cycles) : PostOk(i))

SpecFair == Init /\ [][Next]_vars /\ Fairness

\* The event loop when the server need not answer: time passes and the
\* timers of the page fire, but nothing makes a fetch or a push return.
TimersFairness ==
    /\ WF_vars(Tick)
    /\ WF_vars(ClearStatus)
    /\ WF_vars(ResyncTimerFire)

SpecNoReply == Init /\ [][Next]_vars /\ TimersFairness

\* the program together with the conflict simulation of lines 780-801
NextTest ==
    \/ Next
    \/ SimulateConflictTest

SpecTest == Init /\ [][NextTest]_vars

----------------------------------------------------------------------------
(* mergeQuotes as a function: one call on arguments drawn from record arrays
   with one record per id *)

ArgTexts == {<<"A">>, <<"B">>}
ArgCategory == <<"X">>
ArgVersions == {1, 2}

ArgRecords ==
    {Rec(id, t, ArgCategory, v, StartTime, FALSE) :
        id \in 1..MaxLen, t \in ArgTexts, v \in ArgVersions}

SeqsUpTo(S, n) == UNION {[1..k -> S] : k \in 0..n}

DistinctIds(s) == \A i, j \in 1..Len(s) : s[i].id = s[j].id => i = j

ArgArrays == {s \in SeqsUpTo(ArgRecords, MaxLen) : DistinctIds(s)}

MergeInit ==
    /\ Constructed
    /\ call \in {[fn |-> "mergeQuotes", done |-> FALSE, local |-> l,
                  server |-> r, merged |-> <<>>, conflicts |-> <<>>] :
                    l \in ArgArrays, r \in ArgArrays}

MergeCall ==
    /\ call.fn = "mergeQuotes"
    /\ ~call.done
    /\ LET m == mergeQuotes(call.local, call.server)
       IN call' = [call EXCEPT !.done = TRUE, !.merged = m.merged,
                               !.conflicts = m.conflicts]
    /\ UNCHANGED <<quotes, localStore, serverStore, isSyncing, pendingChanges,
                   cycles, status, statusClears, conflictList, conflictShown,
                   resyncTimers, now, last, lastMerge, cycleWrites, adds>>

MergeSpec == MergeInit /\ [][MergeCall]_vars

----------------------------------------------------------------------------
(* reconcileServerData of the earlier draft (lines 405-442). It works on the
   draft's global array quotes, whose objects it changes in place: an object
   is named by its index in the array, and a conflict entry holds the index
   of its local object, as the code holds a reference to it. *)

NoServerId == ""    \* a record without serverId

DraftQuote(text, category, serverId, lastModified) ==
    [text |-> text, category |-> category, serverId |-> serverId,
     lastModified |-> lastModified]

ServerQuote(serverId, text, category, updatedAt) ==
    [serverId |-> serverId, text |-> text, category |-> category,
     updatedAt |-> updatedAt]

\* the key of localByKey (line 408)
Key(text, category) == text \o <<"|", "|">> \o category

\* new Map(entries).get(key) over the entries at the indices in hits: the
\* last entry with the key wins; 0 for undefined
LastOf(hits) ==
    IF hits = {} THEN 0 ELSE CHOOSE k \in hits : \A j \in hits : j <= k

\* localByServerId.get(serverId) (lines 407, 414)
LocalByServerId(q, serverId) ==
    LastOf({k \in 1..Len(q) :
                q[k].serverId # NoServerId /\ q[k].serverId = serverId})

\* localByKey.get(key) (lines 408, 433)
LocalByKey(q, key) ==
    LastOf({k \in 1..Len(q) : Key(q[k].text, q[k].category) = key})

\* lines 424 and 427: the local object takes the server's payload
AcceptServer(local, s) ==
    [local EXCEPT !.text = s.text, !.category = s.category,
                  !.lastModified = s.updatedAt]

RECURSIVE ReconcileFrom(_, _, _, _)
ReconcileFrom(q0, serverQuotes, k, st) ==
    IF k > Len(serverQuotes)
    THEN st
    ELSE LET s  == serverQuotes[k]
             li == LocalByServerId(q0, s.serverId)
             mi == LocalByKey(q0, Key(s.text, s.category))
             nx == IF li # 0
                   THEN IF st.quotes[li].text # s.text
                           \/ st.quotes[li].category # s.category
                        THEN [st EXCEPT
                                !.conflicts =
                                    IF st.quotes[li].lastModified > s.updatedAt
                                    THEN Append(@, [type |-> "modify",
                                                    server |-> s, local |-> li])
                                    ELSE @,
                                !.quotes[li] = AcceptServer(@, s),
                                !.updated = Append(@, li)]
                        ELSE st
                   ELSE IF mi # 0
                        THEN [st EXCEPT
                                !.quotes[mi] =
                                    [@ EXCEPT !.serverId = s.serverId,
                                              !.lastModified = s.updatedAt],
                                !.updated = Append(@, mi)]
                        ELSE [st EXCEPT
                                !.quotes = Append(@, DraftQuote(s.text, s.category,
                                                    s.serverId, s.updatedAt)),
                                !.added = Append(@, Len(st.quotes) + 1)]
         IN ReconcileFrom(q0, serverQuotes, k + 1, nx)

reconcileServerData(q, serverQuotes) ==
    ReconcileFrom(q, serverQuotes, 1,
                  [quotes |-> q, conflicts |-> <<>>, added |-> <<>>,
                   updated |-> <<>>])

ArgServerIds == {"1", "2"}

ArgDraftQuotes ==
    {DraftQuote(t, ArgCategory, sid, lm) :
        t \in ArgTexts, sid \in ArgServerIds \cup {NoServerId}, lm \in {0, 2}}

ArgServerQuotes ==
    {ServerQuote(sid, t, ArgCategory, 1) : sid \in ArgServerIds, t \in ArgTexts}

DistinctServerIds(s) ==
    \A i, j \in 1..Len(s) : s[i].serverId = s[j].serverId => i = j

ReconcileInit ==
    /\ Constructed
    /\ call \in {[fn |-> "reconcileServerData", done |-> FALSE, before |-> q,
                  serverQuotes |-> sq, quotes |-> q, conflicts |-> <<>>,
                  added |-> <<>>, updated |-> <<>>] :
                    q \in SeqsUpTo(ArgDraftQuotes, MaxLen),
                    sq \in {x \in SeqsUpTo(ArgServerQuotes, MaxLen) :
                                DistinctServerIds(x)}}

ReconcileCall ==
    /\ call.fn = "reconcileServerData"
    /\ ~call.done
    /\ LET r == reconcileServerData(call.quotes, call.serverQuotes)
       IN call' = [call EXCEPT !.done = TRUE, !.quotes = r.quotes,
                               !.conflicts = r.conflicts, !.added = r.added,
                               !.updated = r.updated]
    /\ UNCHANGED <<quotes, localStore, serverStore, isSyncing, pendingChanges,
                   cycles, status, statusClears, conflictList, conflictShown,
                   resyncTimers, now, last, lastMerge, cycleWrites, adds>>

ReconcileSpec == ReconcileInit /\ [][ReconcileCall]_vars

----------------------------------------------------------------------------
(* Loading the saved records at start: QuoteManager.loadFromLocalStorage
   (lines 522-533) and loadQuotes of the earlier drafts (lines 38-51, 311-323).
   What localStorage.getItem returns is one of: nothing (null), the empty
   string, a string that is not JSON, the JSON text of a value that is not an
   array, the JSON text of an array. *)

Payload(kind, value) == [kind |-> kind, value |-> value]

NoItem      == Payload("absent", <<>>)       \* getItem returns null
EmptyItem   == Payload("empty", <<>>)        \* ''
Unparsable  == Payload("unparsable", <<>>)   \* 'not json'
ObjectItem  == Payload("object", <<>>)       \* '{}'
ArrayItem(a) == Payload("array", a)          \* JSON.stringify(a)

\* if (saved) / if (raw): null and '' are falsy
ItemTruthy(p) == p.kind \notin {"absent", "empty"}

\* JSON.parse throws a SyntaxError on text that is not JSON
ParseThrows(p) == p.kind \in {"empty", "unparsable"}

\* Array.isArray(JSON.parse(raw))
ParsesToArray(p) == p.kind = "array"

\* DEFAULT_QUOTES (lines 10-15, 281-286), texts abbreviated
DEFAULT_QUOTES ==
    << [text |-> <<"b">>, category |-> <<"M">>],
       [text |-> <<"y">>, category |-> <<"M">>],
       [text |-> <<"o">>, category |-> <<"I">>],
       [text |-> <<"l">>, category |-> <<"L">>] >>

\* the outcome of a load: the value of quotes, the Local Store item, whether
\* saveToLocalStorage marked pending changes, whether an exception escaped
Loaded(q, stored, pending, threw) ==
    [quotes |-> q, stored |-> stored, pending |-> pending, threw |-> threw]

\* lines 38-51 and 311-323
loadQuotes(raw) ==
    IF ItemTruthy(raw) /\ ~ParseThrows(raw) /\ ParsesToArray(raw)
    THEN Loaded(raw, raw, FALSE, FALSE)
    ELSE Loaded(ArrayItem(DEFAULT_QUOTES), ArrayItem(DEFAULT_QUOTES), FALSE, FALSE)

\* lines 522-533; this.quotes is [] (line 504) when JSON.parse throws
loadFromLocalStorage(saved, t) ==
    IF ItemTruthy(saved)
    THEN IF ParseThrows(saved)
         THEN Loaded(ArrayItem(<<>>), saved, FALSE, TRUE)
         ELSE Loaded(saved, saved, FALSE, FALSE)
    ELSE Loaded(ArrayItem(InitialLocalData(t)), ArrayItem(InitialLocalData(t)),
                TRUE, FALSE)

\* the built-in record set of each implementation
DefaultSet(fn, t) ==
    IF fn = "loadQuotes" THEN DEFAULT_QUOTES ELSE InitialLocalData(t)

SavedItems ==
    {NoItem, EmptyItem, Unparsable, ObjectItem} \cup {ArrayItem(a) : a \in ArgArrays}

LoadInit ==
    /\ Constructed
    /\ call \in {[fn |-> f, done |-> FALSE, saved |-> p,
                  result |-> Loaded(p, p, FALSE, FALSE)] :
                    f \in {"loadQuotes", "loadFromLocalStorage"}, p \in SavedItems}

LoadCall ==
    /\ call.fn \in {"loadQuotes", "loadFromLocalStorage"}
    /\ ~call.done
    /\ call' = [call EXCEPT
                  !.done = TRUE,
                  !.result = IF call.fn = "loadQuotes"
                             THEN loadQuotes(call.saved)
                             ELSE loadFromLocalStorage(call.saved, now)]
    /\ UNCHANGED <<quotes, localStore, serverStore, isSyncing, pendingChanges,
                   cycles, status, statusClears, conflictList, conflictShown,
                   resyncTimers, now, last, lastMerge, cycleWrites, adds>>

LoadSpec == LoadInit /\ [][LoadCall]_vars

----------------------------------------------------------------------------
(* Properties *)

\* the handlers that call syncWithServer
SyncOps == {"manualSync", "periodic", "resync", "addQuote", "simulateConflictTest"}

\* C1: at most one sync cycle is in flight and a cycle writes the Local Store
\* at most once; a syncWithServer request made while isSyncing is rejected
\* with "Already syncing...", starts no cycle and fetches, merges, pushes and
\* saves nothing (addQuote's own save of the new record apart).
C1_AtMostOneSync ==
    /\ [](Len(cycles) <= 1 /\ cycleWrites <= 1 /\ (isSyncing <=> Len(cycles) = 1))
    /\ [][ (isSyncing /\ last'.op \in SyncOps) =>
              /\ last'.rejected
              /\ status' = StatusAlready
              /\ isSyncing'
              /\ cycles' = cycles
              /\ serverStore' = serverStore
              /\ lastMerge' = lastMerge
              /\ cycleWrites' = cycleWrites
              /\ last'.op # "addQuote" =>
                    (quotes' = quotes /\ localStore' = localStore) ]_vars

\* a manual sync was requested during a cycle and rejected
C1_Witness ==
    /\ last.op = "manualSync"
    /\ last.rejected
    /\ isSyncing
    /\ Len(cycles) = 1
    /\ status = StatusAlready

\* C2: when the fetch of a cycle fails, the step leaves the record set, the
\* Local Store and the Remote Store as they are, merges nothing, reports the
\* error and leaves Syncing; starting a cycle changes none of them either.
C2_FetchFailureAtomic ==
    [][ /\ last'.op = "fetchFail" =>
              /\ quotes' = quotes
              /\ localStore' = localStore
              /\ serverStore' = serverStore
              /\ lastMerge' = lastMerge
              /\ cycleWrites' = cycleWrites
              /\ isSyncing /\ ~isSyncing'
              /\ status' = StatusFailed
        /\ (last'.op \in {"manualSync", "periodic", "resync"} /\ ~last'.rejected) =>
              /\ quotes' = quotes
              /\ localStore' = localStore
              /\ serverStore' = serverStore ]_vars

\* a cycle has failed at its fetch and the scheduler is idle again
C2_Witness ==
    /\ last.op = "fetchFail"
    /\ ~isSyncing
    /\ status = StatusFailed
    /\ quotes = localStore

Differ(l, r) ==
    l.text # r.text \/ l.category # r.category \/ l.version # r.version

\* the statement of C3 about one merge m = [local, server, merged, conflicts]
RemoteWinsIn(m) ==
    \A a \in 1..Len(m.local), b \in 1..Len(m.server) :
        LET l == m.local[a]
            r == m.server[b]
            inMerged == {k \in 1..Len(m.merged) : m.merged[k].id = l.id}
            entries == {k \in 1..Len(m.conflicts) : m.conflicts[k].local.id = l.id}
        IN (l.id = r.id /\ Differ(l, r)) =>
              /\ Cardinality(inMerged) = 1
              /\ \A k \in inMerged : m.merged[k] = r
              /\ Cardinality(entries) = 1
              /\ \A k \in entries :
                    /\ m.conflicts[k].local = l
                    /\ m.conflicts[k].server = r

\* C3: in every merge, an id held by both sides with differing text, category
\* or version ends in merged exactly once, as the whole remote record (text,
\* category, version and lastModified), and has exactly one conflict entry,
\* which holds the local and the remote record.
C3_RemoteWins ==
    /\ (call.fn = "mergeQuotes" /\ call.done) => RemoteWinsIn(call)
    /\ RemoteWinsIn(lastMerge)

\* the scenario of the specification: local {1, A, X, v1}, remote {1, B, X, v2}
C3_Witness ==
    /\ call.fn = "mergeQuotes"
    /\ call.done
    /\ call.local = << Rec(1, <<"A">>, ArgCategory, 1, StartTime, FALSE) >>
    /\ call.server = << Rec(1, <<"B">>, ArgCategory, 2, StartTime, FALSE) >>
    /\ call.merged = call.server
    /\ Len(call.conflicts) = 1
    /\ call.conflicts[1].local.text = <<"A">>
    /\ call.conflicts[1].server.text = <<"B">>

\* C4: after a merge, every conflict entry still gives the local side's text,
\* category and version as they were before the merge: in mergeQuotes the
\* entry's local record is one of the local array's records, and after
\* reconcileServerData the object the entry refers to reads as it did before.
C4_NoDataLoss ==
    /\ \A k \in 1..Len(lastMerge.conflicts) :
          \E a \in 1..Len(lastMerge.local) :
              lastMerge.conflicts[k].local = lastMerge.local[a]
    /\ (call.fn = "mergeQuotes" /\ call.done) =>
          \A k \in 1..Len(call.conflicts) :
              \E a \in 1..Len(call.local) : call.conflicts[k].local = call.local[a]
    /\ (call.fn = "reconcileServerData" /\ call.done) =>
          \A k \in 1..Len(call.conflicts) :
              LET i == call.conflicts[k].local
              IN /\ call.quotes[i].text = call.before[i].text
                 /\ call.quotes[i].category = call.before[i].category

C6_NoveltyPreserved ==
    [][ last'.op \in {"postOk", "fetchFail"} =>
          \A a \in 1..Len(localStore) :
              localStore[a].id \notin Ids(serverStore) =>
                  \E b \in 1..Len(localStore') :
                      /\ localStore'[b].id = localStore[a].id
                      /\ localStore'[b].text = localStore[a].text
                      /\ localStore'[b].category = localStore[a].category
                      /\ last'.op = "fetchFail" =>
                            localStore'[b].version = localStore[a].version ]_vars

\* C7: mergeQuotes(S, S) returns S itself as the merged array, in the same
\* order with nothing added or dropped, and no conflict.
C7_MergeIdempotent ==
    (call.fn = "mergeQuotes" /\ call.done /\ call.local = call.server) =>
        /\ call.merged = call.local
        /\ call.conflicts = <<>>

\* mergeQuotes has been applied to two copies of a two-record array
C7_Witness ==
    /\ call.fn = "mergeQuotes"
    /\ call.done
    /\ call.local = call.server
    /\ Len(call.local) = 2
    /\ call.merged = call.local

Max(a, b) == IF a > b THEN a ELSE b

\* C8: resolveConflict(i, choice) leaves, in the Local Store, the record of
\* conflict i with the chosen side's text and category and with version
\* max(local version, remote version) + 1.
C8_ResolveAppliesChoice ==
    [][ last'.op = "resolveConflict" =>
          LET c == conflictList[last'.idx]
              chosen == IF last'.choice = "local" THEN c.local ELSE c.server
          IN \E b \in 1..Len(localStore') :
                /\ localStore'[b].id = c.local.id
                /\ localStore'[b].text = chosen.text
                /\ localStore'[b].category = chosen.category
                /\ localStore'[b].version =
                        Max(c.local.version, c.server.version) + 1 ]_vars

\* the conflicts a user can still resolve
Pending == IF conflictShown THEN conflictList ELSE <<>>

\* C9: resolveConflict(i, choice) takes conflict i, and no other, out of the
\* pending conflicts and schedules a sync; the scheduled sync starts a cycle
\* when its timer fires.
C9_ResolveBookkeeping ==
    [][ /\ last'.op = "resolveConflict" =>
              /\ Pending' = RemoveAt(Pending, last'.idx)
              /\ resyncTimers' = resyncTimers + 1
        /\ last'.op = "resync" => ~last'.rejected ]_vars

\* C10: an addQuote whose text or category is empty after trimming is refused
\* and changes neither the record set, the Local Store nor the scheduler; no
\* stored record has an empty text or an empty category.
C10_AddValidation ==
    /\ [][ ( /\ last'.op \in {"addQuote", "addQuoteAlert"}
             /\ Trim(last'.text) = <<>> \/ Trim(last'.category) = <<>> ) =>
              /\ last'.op = "addQuoteAlert"
              /\ UNCHANGED <<quotes, localStore, serverStore, isSyncing, cycles,
                             pendingChanges>> ]_vars
    /\ [](\A k \in 1..Len(localStore) :
              localStore[k].text # <<>> /\ localStore[k].category # <<>>)

\* the records of s with the given text and category
SamePair(s, text, category) ==
    {k \in 1..Len(s) : s[k].text = text /\ s[k].category = category}

\* C11: an addQuote whose trimmed text and category are those of a record
\* already in the record set is refused and changes neither the record set,
\* the Local Store nor the scheduler; the record set never holds two records
\* with the same text and category.
C11_DuplicateRejected ==
    /\ [][ ( /\ last'.op \in {"addQuote", "addQuoteAlert"}
             /\ SamePair(quotes, Trim(last'.text), Trim(last'.category)) # {} ) =>
              UNCHANGED <<quotes, localStore, serverStore, isSyncing, cycles,
                          pendingChanges>> ]_vars
    /\ [](\A k \in 1..Len(quotes) :
              SamePair(quotes, quotes[k].text, quotes[k].category) = {k})

\* a saved item that is not the JSON text of an array
Malformed(p) == p.kind \in {"empty", "unparsable", "object"}

\* C12: a load that finds a saved item that is not a well-formed array sets
\* the record set to the built-in default set and saves that set, and no
\* exception leaves the load.
C12_CorruptDataRecovery ==
    (call.fn \in {"loadQuotes", "loadFromLocalStorage"} /\ call.done
        /\ Malformed(call.saved)) =>
            /\ ~call.result.threw
            /\ call.result.quotes = ArrayItem(DefaultSet(call.fn, now))
            /\ call.result.stored = ArrayItem(DefaultSet(call.fn, now))

\* C13: when the fetch of a cycle has succeeded and the push is started, the
\* merged set is already the record set and is already saved in the Local
\* Store, so that a failing push would leave the merged result in both.
C13_MergeKeptBeforePush ==
    [][ last'.op = "fetchOk" =>
          /\ quotes' = lastMerge'.merged
          /\ localStore' = lastMerge'.merged ]_vars

\* C14: every sync cycle that has started ends: from every state, isSyncing
\* is false again at some later state (which says isSyncing ~> ~isSyncing).
\* A cycle ends either at the return of the push, reporting success, or at the
\* failure of the fetch, reporting the failure; and a sync requested while
\* isSyncing is false is accepted and starts a cycle.
C14_ReturnsToIdle ==
    /\ []<>~isSyncing
    /\ [][ (isSyncing /\ ~isSyncing') =>
              \/ last'.op = "postOk" /\ status' = StatusSynced
              \/ last'.op = "fetchFail" /\ status' = StatusFailed ]_vars
    /\ [][ (~isSyncing /\ last'.op \in SyncOps) =>
              /\ ~last'.rejected
              /\ isSyncing'
              /\ Len(cycles') = 1 ]_vars

\* a cycle has pushed and ended, and a manual sync requested after it has
\* been accepted
C14_Witness ==
    /\ last.op = "manualSync"
    /\ ~last.rejected
    /\ isSyncing
    /\ Len(serverStore) = 4
    /\ \A k \in 1..Len(serverStore) : serverStore[k].version = 2

\* the two outcomes of the setInterval callback
PeriodicOps == {"periodic", "periodicSkip"}

\* C15: a firing of the recurring timer while isSyncing is false starts a sync
\* cycle, with or without pending local changes; a firing while a cycle is in
\* flight starts none and schedules none.
C15_PeriodicTrigger ==
    [][ /\ (last'.op \in PeriodicOps /\ ~isSyncing) =>
              /\ last'.op = "periodic"
              /\ ~last'.rejected
              /\ isSyncing'
              /\ Len(cycles') = 1
        /\ (last'.op \in PeriodicOps /\ isSyncing) =>
              /\ cycles' = cycles
              /\ resyncTimers' = resyncTimers ]_vars

\* C16: the status shown when a cycle ends is the failure report if the fetch
\* failed, is not the plain success report if the cycle's merge produced a
\* conflict, and is the plain success report if it produced none.
C16_TerminalOutcome ==
    [][ (isSyncing /\ ~isSyncing') =>
          /\ last'.op = "fetchFail" => status' = StatusFailed
          /\ (last'.op = "postOk" /\ Len(lastMerge.conflicts) > 0) =>
                status' # StatusSynced
          /\ (last'.op = "postOk" /\ Len(lastMerge.conflicts) = 0) =>
                status' = StatusSynced ]_vars

\* C17: the Local Store never holds two records with the same id, and the
\* merged array of a merge never holds two records with the same id.
C17_IdUniqueness ==
    /\ DistinctIds(localStore)
    /\ DistinctIds(lastMerge.merged)

\* the records of store s with the id, text and category of record r
SamePayload(s, r) ==
    {k \in 1..Len(s) : /\ s[k].id = r.id
                       /\ s[k].text = r.text
                       /\ s[k].category = r.category}

\* C18: addQuote creates its record with version 1, and a sync cycle leaves
\* the version of a record unchanged in the Local and in the Remote Store when
\* both stores held the record with the same text and category before the
\* cycle's push and hold it with that text and category after it.
C18_VersionCountsMutations ==
    [][ /\ last'.op = "addQuote" => quotes'[Len(quotes')].version = 1
        /\ last'.op = "postOk" =>
              \A a \in 1..Len(localStore) :
                  LET r == localStore[a]
                  IN SamePayload(serverStore, r) # {} =>
                        /\ \A b \in SamePayload(localStore', r) :
                              localStore'[b].version = r.version
                        /\ \A b \in SamePayload(serverStore', r) :
                              \E c \in SamePayload(serverStore, r) :
                                  serverStore'[b].version = serverStore[c].version
      ]_vars

\* C19: while a sync cycle is in flight (isSyncing, a fetch or a push being
\* awaited), neither addQuote nor resolveConflict changes the record set or
\* the Local Store.
C19_AddExcludedBySync ==
    [][ (isSyncing /\ last'.op \in {"addQuote", "addQuoteAlert", "resolveConflict"}) =>
          /\ quotes' = quotes
          /\ localStore' = localStore ]_vars

\* C20: a record created by addQuote (the records marked local) stays, with
\* its id, text and category, in the record set and in the Local Store at
\* every later step, whatever a sync cycle in flight does.
C20_NoLostAdd ==
    [][ /\ last'.op = "addQuote" =>
              /\ quotes'[Len(quotes')].local
              /\ SamePayload(localStore', quotes'[Len(quotes')]) # {}
        /\ \A a \in 1..Len(quotes) :
              quotes[a].local =>
                  /\ SamePayload(quotes', quotes[a]) # {}
                  /\ SamePayload(localStore', quotes[a]) # {} ]_vars

C22_MergePure ==
    /\ []((call.fn = "reconcileServerData" /\ call.done) =>
              call.quotes = call.before)
    /\ [][ last'.op = "fetchOk" =>
              /\ quotes' = quotes
              /\ localStore' = localStore
              /\ serverStore' = serverStore
              /\ lastMerge'.local = quotes
              /\ lastMerge'.server = serverStore ]_vars

\* the records of s with the given serverId
WithServerId(s, serverId) == {k \in 1..Len(s) : s[k].serverId = serverId}

\* C23: when a remote record matches no local record by id and local records
\* without a remote id have its text and category, the first of them adopts
\* the remote id and lastModified, the later ones stay without a remote id,
\* and no further record is made for that content. For reconcileServerData
\* this is stated for a remote record whose content no other remote record
\* has; for mergeQuotes, whose records carry only id, the merged array holds
\* the content of such a pair once.
C23_ContentMatching ==
    /\ (call.fn = "reconcileServerData" /\ call.done) =>
          \A j \in 1..Len(call.serverQuotes) :
              LET r == call.serverQuotes[j]
                  same == {k \in SamePair(call.before, r.text, r.category) :
                              call.before[k].serverId = NoServerId}
                  first == CHOOSE k \in same : \A i \in same : k <= i
              IN ( /\ WithServerId(call.before, r.serverId) = {}
                   /\ SamePair(call.serverQuotes, r.text, r.category) = {j}
                   /\ same # {} ) =>
                      /\ WithServerId(call.quotes, r.serverId) = {first}
                      /\ call.quotes[first].lastModified = r.updatedAt
                      /\ \A k \in same \ {first} : call.quotes[k] = call.before[k]
    /\ (call.fn = "mergeQuotes" /\ call.done) =>
          \A a \in 1..Len(call.local), b \in 1..Len(call.server) :
              ( /\ call.local[a].id \notin Ids(call.server)
                /\ call.server[b].id \notin Ids(call.local)
                /\ SamePair(call.local, call.server[b].text,
                            call.server[b].category) = {a} ) =>
                    Cardinality(SamePair(call.merged, call.server[b].text,
                                         call.server[b].category)) = 1

\* C24: when a sync cycle completes with success, the record set, the Local
\* Store and the Remote Store hold the same records; and a cycle whose merge
\* runs while the three still hold the same records (no add and no remote
\* edit since) finds no conflict and merges to that same array.
C24_Convergence ==
    [][ /\ last'.op = "postOk" =>
              /\ quotes' = localStore'
              /\ localStore' = serverStore'
        /\ ( /\ last'.op = "fetchOk"
             /\ quotes = localStore
             /\ localStore = serverStore ) =>
              /\ lastMerge'.conflicts = <<>>
              /\ lastMerge'.merged = quotes ]_vars

\* a first cycle has completed, and the merge of a second cycle, run on the
\* converged stores, has found no conflict
C24_Witness ==
    /\ last.op = "fetchOk"
    /\ quotes = localStore
    /\ localStore = serverStore
    /\ Len(quotes) = 4
    /\ \A k \in 1..Len(quotes) : quotes[k].version = 2
    /\ lastMerge.local = quotes
    /\ lastMerge.server = serverStore
    /\ lastMerge.conflicts = <<>>

\* C25: the push of a sync cycle removes no record from the Remote Store, and
\* a Remote Store record whose id, text and category the cycle's fetch did not
\* return (written by another writer since the fetch) is in the Remote Store
\* with that text and category after the push.
C25_PushKeepsRemote ==
    [][ last'.op = "postOk" =>
          \A b \in 1..Len(serverStore) :
              LET r == serverStore[b]
              IN /\ r.id \in Ids(serverStore')
                 /\ SamePayload(lastMerge.server, r) = {} =>
                        SamePayload(serverStore', r) # {} ]_vars

====
